---- MODULE Spec2Model ----
(***************************************************************************)
(* Model of the outbound HTTP message writer of actix-web's client         *)
(* (src/client/writer.rs): HttpClientWriter, content_encoder,              *)
(* streaming_encoding and the per-thread Date cache.                       *)
(*                                                                         *)
(* A byte is a one-character string; byte strings are sequences of bytes.  *)
(* The transfer framer and the content encoder (server::encoding) and the  *)
(* header map are not part of writer.rs; they are modelled from the        *)
(* written specification (sections 3, 4.2 and 4.3).                        *)
(***************************************************************************)
EXTENDS Integers, Sequences, FiniteSets, TLC

VARIABLES
    req,            \* the ClientRequest handed to start (mutated by it)
    req0,           \* history: that request as the caller built it
    flags,          \* HttpClientWriter.flags
    written,        \* HttpClientWriter.written (u64)
    headers_size,   \* HttpClientWriter.headers_size (u32)
    buffer,         \* HttpClientWriter.buffer (SharedBytes)
    encoder,        \* HttpClientWriter.encoder
    low,            \* HttpClientWriter.low
    high,           \* HttpClientWriter.high
    cache,          \* thread-local CACHED: CachedDate
    clock,          \* wall clock, time::get_time(): <<sec, nsec>>
    sent,           \* history: bytes the transport has accepted, in order
    appended,       \* history: every byte ever appended to the buffer
    payloads,       \* history: the write calls since start, [payload, ok]
    head_len,       \* history: length of the head start serialized
    eofs,           \* history: number of write_eof calls since start
    peer_closed,    \* history: a transport write has returned Ok(0)
    reads,          \* history: Date cache reads, <<time, value>>
    last,           \* history: the last operation and what it returned
    ncalls,         \* history: how many calls were made on the writer since start
    starts          \* history: how many times start was called

vars == <<req, req0, flags, written, headers_size, buffer, encoder, low, high,
          cache, clock, sent, appended, payloads, head_len, eofs, peer_closed,
          reads, last, ncalls, starts>>

-----------------------------------------------------------------------------
(* Bounds of the model *)

MaxOps == 3

MaxCut == 1

MaxReads == 3

MaxSec == 4

MaxStarts == 2

-----------------------------------------------------------------------------
(* Program constants *)

LOW_WATERMARK == 1024

HIGH_WATERMARK == 8 * LOW_WATERMARK

DATE_VALUE_LENGTH == 29

-----------------------------------------------------------------------------
(* Byte strings *)

CRLF == <<"\r", "\n">>

Digits == <<"0", "1", "2", "3", "4", "5", "6", "7", "8", "9">>

HexDigits == Digits \o <<"A", "B", "C", "D", "E", "F">>

RECURSIVE Dec(_)
\* write!(b, "{}", n): decimal, no leading zeros
Dec(n) == IF n < 10 THEN <<Digits[n + 1]>> ELSE Dec(n \div 10) \o <<Digits[(n % 10) + 1]>>

RECURSIVE Hex(_)
\* the hex length that prefixes a chunk
Hex(n) == IF n < 16 THEN <<HexDigits[n + 1]>> ELSE Hex(n \div 16) \o <<HexDigits[(n % 16) + 1]>>

Dec2(n) == <<Digits[(n \div 10) + 1], Digits[(n % 10) + 1]>>

DigitVal(c) == IF \E i \in 1..10 : Digits[i] = c THEN (CHOOSE i \in 1..10 : Digits[i] = c) - 1 ELSE -1

RECURSIVE DigitsValue(_, _)
\* value of a string of decimal digits, -1 on a non-digit (the values of the
\* model stay far below the u64 range)
DigitsValue(s, acc) ==
    IF s = <<>> THEN acc
    ELSE IF DigitVal(Head(s)) < 0 THEN -1
    ELSE DigitsValue(Tail(s), acc * 10 + DigitVal(Head(s)))

\* str::parse::<u64>(): an optional "+", then one or more digits; -1 is Err
ParseU64(s) ==
    LET d == IF s # <<>> /\ Head(s) = "+" THEN Tail(s) ELSE s
    IN  IF d = <<>> THEN -1 ELSE DigitsValue(d, 0)

\* HeaderValue::to_str(): Ok only for visible ASCII
ToStrOk(v) == \A i \in 1..Len(v) : v[i] # "0xFF"

-----------------------------------------------------------------------------
(* Header names and values *)

DATE == <<"d", "a", "t", "e">>

CONNECTION == <<"c", "o", "n", "n", "e", "c", "t", "i", "o", "n">>

CONTENT_ENCODING == <<"c", "o", "n", "t", "e", "n", "t", "-", "e", "n", "c", "o", "d", "i", "n", "g">>

CONTENT_LENGTH == <<"c", "o", "n", "t", "e", "n", "t", "-", "l", "e", "n", "g", "t", "h">>

TRANSFER_ENCODING == <<"t", "r", "a", "n", "s", "f", "e", "r", "-", "e", "n", "c", "o", "d", "i", "n", "g">>

V_chunked == <<"c", "h", "u", "n", "k", "e", "d">>

V_upgrade == <<"u", "p", "g", "r", "a", "d", "e">>

V_gzip == <<"g", "z", "i", "p">>

V_deflate == <<"d", "e", "f", "l", "a", "t", "e">>

V_br == <<"b", "r">>

V_identity == <<"i", "d", "e", "n", "t", "i", "t", "y">>

V_auto == <<"a", "u", "t", "o">>

\* ContentEncoding::is_compression
is_compression(enc) == enc \in {"Deflate", "Gzip", "Br"}

\* ContentEncoding::as_str
as_str(enc) ==
    CASE enc = "Deflate" -> V_deflate
      [] enc = "Gzip" -> V_gzip
      [] enc = "Br" -> V_br
      [] enc = "Identity" -> V_identity
      [] OTHER -> V_auto

(* The header map: a sequence of [name, value], one entry per name, in
   insertion order. *)

contains_key(h, k) == \E i \in 1..Len(h) : h[i].name = k

get(h, k) == h[CHOOSE i \in 1..Len(h) : h[i].name = k].value

insert(h, k, v) ==
    IF contains_key(h, k)
    THEN [i \in 1..Len(h) |-> IF h[i].name = k THEN [name |-> k, value |-> v] ELSE h[i]]
    ELSE Append(h, [name |-> k, value |-> v])

remove(h, k) == SelectSeq(h, LAMBDA e : e.name # k)

-----------------------------------------------------------------------------
(* Transfer Framer (specification 4.3) *)

TE_eof == [kind |-> "Eof", eof |-> FALSE, remaining |-> 0]

TE_chunked == [kind |-> "Chunked", eof |-> FALSE, remaining |-> 0]

TE_length(n) == [kind |-> "Length", eof |-> FALSE, remaining |-> n]

CHUNK_END == <<"0">> \o CRLF \o CRLF

\* TransferEncoding::is_eof
TE_is_eof(t) ==
    CASE t.kind = "Eof" -> TRUE
      [] t.kind = "Chunked" -> t.eof
      [] OTHER -> t.remaining = 0

\* TransferEncoding write: [t: the framer after, out: bytes appended, err]
TE_encode(t, msg) ==
    CASE t.kind = "Eof" -> [t |-> t, out |-> msg, err |-> "none"]
      [] t.kind = "Chunked" ->
            [t |-> t,
             out |-> IF msg = <<>> THEN <<>> ELSE Hex(Len(msg)) \o CRLF \o msg \o CRLF,
             err |-> "none"]
      [] OTHER ->
            IF Len(msg) > t.remaining
            THEN [t |-> t, out |-> <<>>, err |-> "overlong"]
            ELSE [t |-> [t EXCEPT !.remaining = @ - Len(msg)], out |-> msg, err |-> "none"]

\* TransferEncoding write_eof
TE_encode_eof(t) ==
    CASE t.kind = "Eof" -> [t |-> t, out |-> <<>>, err |-> "none"]
      [] t.kind = "Chunked" -> [t |-> [t EXCEPT !.eof = TRUE], out |-> CHUNK_END, err |-> "none"]
      [] OTHER ->
            [t |-> t, out |-> <<>>, err |-> IF t.remaining # 0 THEN "incomplete" ELSE "none"]

-----------------------------------------------------------------------------
(* Content Encoder (specification 4.2) *)

\* what a codec makes of one input byte
Squeeze(b) == CASE b = "a" -> "A" [] b = "b" -> "B" [] OTHER -> "?"

CodecTag(alg) == CASE alg = "Deflate" -> "D" [] alg = "Gzip" -> "G" [] OTHER -> "R"

\* the compressed stream of `data` under codec `alg`: never the input itself
Compress(alg, data) ==
    <<CodecTag(alg)>> \o [i \in 1..Len(data) |-> Squeeze(data[i])] \o <<"$">>

CE_new(codec, transfer) == [codec |-> codec, pending |-> <<>>, transfer |-> transfer]

\* ContentEncoder::is_eof
CE_is_eof(e) == TE_is_eof(e.transfer)

CE_pass(e, r) == [e |-> [e EXCEPT !.transfer = r.t], out |-> r.out, err |-> r.err]

\* ContentEncoder::write: Identity passes the bytes on, a codec buffers them
CE_write(e, data) ==
    IF e.codec = "Identity"
    THEN CE_pass(e, TE_encode(e.transfer, data))
    ELSE [e |-> [e EXCEPT !.pending = @ \o data], out |-> <<>>, err |-> "none"]

\* ContentEncoder::write_eof, the codec's trailer: what it still holds goes
\* into the sink
CE_flush(e) ==
    IF e.codec = "Identity"
    THEN [t |-> e.transfer, out |-> <<>>, err |-> "none"]
    ELSE TE_encode(e.transfer, Compress(e.codec, e.pending))

\* ContentEncoder::write_eof, the sink's own termination after flush f
CE_end(f, g) ==
    [e |-> [codec |-> "Identity", pending |-> <<>>, transfer |-> g.t],
     out |-> f.out \o g.out, err |-> g.err]

CE_finish(e, f) ==
    IF f.err # "none"
    THEN [e |-> e, out |-> <<>>, err |-> f.err]
    ELSE CE_end(f, TE_encode_eof(f.t))

\* ContentEncoder::write_eof: flush the codec into the sink, then end the sink
CE_write_eof(e) == CE_finish(e, CE_flush(e))

-----------------------------------------------------------------------------
(* Encoder Selector: streaming_encoding and content_encoder *)

\* streaming_encoding, req.chunked(): lines 282-290
te_declared_chunked(version, h) ==
    IF version = "HTTP_2"
    THEN [headers |-> remove(remove(h, CONTENT_LENGTH), TRANSFER_ENCODING),
          transfer |-> TE_eof, log |-> <<>>]
    ELSE [headers |-> insert(remove(h, CONTENT_LENGTH), TRANSFER_ENCODING, V_chunked),
          transfer |-> TE_chunked, log |-> <<>>]

\* streaming_encoding, a Content-Length value: lines 296-306
parse_content_length(v) ==
    IF ToStrOk(v) /\ ParseU64(v) >= 0
    THEN [len |-> ParseU64(v), chunked |-> FALSE, log |-> <<>>]
    ELSE [len |-> -1, chunked |-> FALSE, log |-> <<"illegal Content-Length">>]

\* streaming_encoding, the Content-Length hint (len, chunked): lines 293-309
content_length_hint(h) ==
    IF contains_key(h, CONTENT_LENGTH)
    THEN parse_content_length(get(h, CONTENT_LENGTH))
    ELSE [len |-> -1, chunked |-> TRUE, log |-> <<>>]

\* streaming_encoding, no Content-Length: lines 318-329
te_unknown_length(version, h) ==
    IF version = "HTTP_11"
    THEN [headers |-> insert(h, TRANSFER_ENCODING, V_chunked), transfer |-> TE_chunked,
          log |-> <<>>]
    ELSE [headers |-> remove(h, TRANSFER_ENCODING), transfer |-> TE_eof, log |-> <<>>]

\* mutant: the parsed Content-Length is dropped, Eof is used
te_by_hint_no_length(version, h, hint) ==
    IF ~hint.chunked
    THEN [headers |-> h, transfer |-> TE_eof, log |-> hint.log]
    ELSE te_unknown_length(version, h)

\* streaming_encoding, chunked() false: lines 311-330
te_by_hint(version, h, hint) ==
    IF ~hint.chunked
    THEN [headers |-> h,
          transfer |-> IF hint.len >= 0 THEN TE_length(hint.len) ELSE TE_eof,
          log |-> hint.log]
    ELSE te_unknown_length(version, h)

\* streaming_encoding: [headers, transfer, log]
streaming_encoding(version, r) ==
    IF r.chunked
    THEN te_declared_chunked(version, r.headers)
    ELSE te_by_hint(version, r.headers, content_length_hint(r.headers))

\* content_encoder, Binary body with a compression encoding: lines 229-231,
\* what the scratch buffer holds after write and write_eof
scratch_bytes(w) == w.out \o CE_write_eof(w.e).out

\* content_encoder, Binary body with a compression encoding: lines 216-231,
\* the payload run once through the codec into a scratch buffer
compress_binary(encoding, bytes) == scratch_bytes(CE_write(CE_new(encoding, TE_eof), bytes))

\* content_encoder, Binary body: lines 237-240
binary_content_length(bytes) == Dec(Len(bytes))

\* content_encoder, Binary body, after the compression step: lines 237-241
binary_framed(h, bytes, encoding) ==
    [headers |-> insert(h, CONTENT_LENGTH, binary_content_length(bytes)),
     body |-> [kind |-> "Binary", bytes |-> bytes],
     encoding |-> encoding, transfer |-> TE_eof, log |-> <<>>]

\* mutant: Content-Length taken from the payload before it is compressed
binary_branch_length_first(r) ==
    IF is_compression(r.encoding)
    THEN [binary_framed(insert(r.headers, CONTENT_ENCODING, as_str(r.encoding)),
                        compress_binary(r.encoding, r.body.bytes), "Identity")
          EXCEPT !.headers = insert(insert(r.headers, CONTENT_ENCODING, as_str(r.encoding)),
                                    CONTENT_LENGTH, binary_content_length(r.body.bytes))]
    ELSE binary_framed(r.headers, r.body.bytes, r.encoding)

\* content_encoder, Binary body: lines 214-242
binary_branch(r) ==
    IF is_compression(r.encoding)
    THEN binary_framed(insert(r.headers, CONTENT_ENCODING, as_str(r.encoding)),
                       compress_binary(r.encoding, r.body.bytes), "Identity")
    ELSE binary_framed(r.headers, r.body.bytes, r.encoding)

\* content_encoder, upgrade request: the Connection header, lines 245-249
upgrade_connection(version, h) ==
    IF version = "HTTP_2" THEN h ELSE insert(h, CONNECTION, V_upgrade)

\* content_encoder, Streaming or Actor body of an upgrade request: lines 244-254
upgrade_branch(version, r) ==
    [headers |-> IF r.encoding # "Identity"
                 THEN remove(upgrade_connection(version, r.headers), CONTENT_ENCODING)
                 ELSE upgrade_connection(version, r.headers),
     body |-> r.body,
     encoding |-> "Identity",
     transfer |-> TE_eof,
     log |-> IF version = "HTTP_2"
             THEN <<"Connection upgrade is forbidden for HTTP/2">> ELSE <<>>]

\* content_encoder, Streaming or Actor body, no upgrade: line 256
streaming_branch(r, s) ==
    [headers |-> s.headers, body |-> r.body, encoding |-> r.encoding,
     transfer |-> s.transfer, log |-> s.log]

\* mutant: an Empty body keeps the caller's Content-Length
body_branch_keeps_length(r) ==
    CASE r.body.kind = "Empty" ->
            [headers |-> r.headers, body |-> r.body,
             encoding |-> r.encoding, transfer |-> TE_length(0), log |-> <<>>]
      [] r.body.kind = "Binary" -> binary_branch(r)
      [] OTHER ->
            IF r.upgrade THEN upgrade_branch(r.version, r)
            ELSE streaming_branch(r, streaming_encoding(r.version, r))

\* content_encoder, the match on the body: lines 209-259
body_branch(r) ==
    CASE r.body.kind = "Empty" ->
            [headers |-> remove(r.headers, CONTENT_LENGTH), body |-> r.body,
             encoding |-> r.encoding, transfer |-> TE_length(0), log |-> <<>>]
      [] r.body.kind = "Binary" -> binary_branch(r)
      [] OTHER ->
            IF r.upgrade THEN upgrade_branch(r.version, r)
            ELSE streaming_branch(r, streaming_encoding(r.version, r))

\* content_encoder, the codec built around the transfer mode: lines 267-275
select_codec(encoding) == IF is_compression(encoding) THEN encoding ELSE "Identity"

\* content_encoder, after the match on the body: lines 261-275
build_encoder(r, b) ==
    [req |-> [r EXCEPT !.headers = IF is_compression(b.encoding)
                                   THEN insert(b.headers, CONTENT_ENCODING, as_str(b.encoding))
                                   ELSE b.headers,
                       !.body = b.body],
     encoder |-> CE_new(select_codec(b.encoding), b.transfer),
     log |-> b.log]

\* content_encoder: [req: the request after, encoder, log]
content_encoder(r) == build_encoder(r, body_branch(r))

-----------------------------------------------------------------------------
(* Date cache *)

\* time::at_utc(now).rfc822() for an instant of the first hour of the epoch
rfc822(now) ==
    <<"T", "h", "u", ",", " ", "0", "1", " ", "J", "a", "n", " ", "1", "9", "7", "0", " ",
      "0", "0", ":">> \o Dec2((now[1] \div 60) % 60) \o <<":">> \o Dec2(now[1] % 60)
      \o <<" ", "G", "M", "T">>

\* Timespec ordering: seconds, then nanoseconds
TimeGt(a, b) == a[1] > b[1] \/ (a[1] = b[1] /\ a[2] > b[2])

TimeGe(a, b) == a = b \/ TimeGt(a, b)

\* thread_local CACHED: lines 354-357
CachedInit == [bytes |-> [i \in 1..DATE_VALUE_LENGTH |-> "NUL"], next_update |-> <<0, 0>>]

\* CachedDate::update
update(c, now) == [bytes |-> rfc822(now), next_update |-> <<now[1] + 1, 0>>]

\* set_date: the cache after the read; the bytes put into dst are its buffer()
set_date(c, now) == IF TimeGt(now, c.next_update) THEN update(c, now) ELSE c

-----------------------------------------------------------------------------
(* Requests *)

METHOD == <<"G", "E", "T">>

PATH == <<"/">>

Versions == {"HTTP_10", "HTTP_11", "HTTP_2"}

\* {:?} of http::Version
VersionDebug(v) ==
    CASE v = "HTTP_10" -> <<"H", "T", "T", "P", "/", "1", ".", "0">>
      [] v = "HTTP_11" -> <<"H", "T", "T", "P", "/", "1", ".", "1">>
      [] OTHER -> <<"H", "T", "T", "P", "/", "2", ".", "0">>

Encodings == {"Identity", "Deflate", "Gzip", "Br", "Auto"}

Hdr(k, v) == [name |-> k, value |-> v]

BodyEmpty == [kind |-> "Empty", bytes |-> <<>>]

BodyStreaming == [kind |-> "Streaming", bytes |-> <<>>]

BodyActor == [kind |-> "Actor", bytes |-> <<>>]

BodyBinary(bytes) == [kind |-> "Binary", bytes |-> bytes]

Bodies == {BodyEmpty, BodyStreaming, BodyActor, BodyBinary(<<>>), BodyBinary(<<"a", "b">>)}

\* header maps a caller can put on a request before start
HeaderPresets ==
    { <<>>,
      <<Hdr(CONTENT_LENGTH, <<"2">>)>>,
      <<Hdr(CONTENT_LENGTH, <<"x">>)>>,
      <<Hdr(CONTENT_LENGTH, <<"0xFF">>)>>,
      <<Hdr(TRANSFER_ENCODING, V_chunked)>>,
      <<Hdr(TRANSFER_ENCODING, V_chunked), Hdr(CONTENT_LENGTH, <<"2">>)>>,
      <<Hdr(CONTENT_ENCODING, V_gzip)>>,
      <<Hdr(CONNECTION, V_upgrade)>>,
      <<Hdr(DATE, <<"d">>)>> }

Requests ==
    [version : Versions, headers : HeaderPresets, body : Bodies,
     upgrade : BOOLEAN, chunked : BOOLEAN, encoding : Encodings]

\* the requests the writer's life cycle is explored with
WriterRequests ==
    { r \in Requests :
        /\ r.version = "HTTP_11" /\ ~r.chunked
        /\ r.headers \in {<<>>, <<Hdr(CONTENT_LENGTH, <<"2">>)>>}
        /\ r.body \in {BodyEmpty, BodyStreaming, BodyBinary(<<"a", "b">>)}
        /\ (r.encoding \in {"Identity", "Deflate"} \/ r.body = BodyEmpty) }

Payloads == {<<>>, <<"a">>, <<"a", "b">>}

Capacities == {<<0, 1>>}

NoRequest ==
    [version |-> "HTTP_11", headers |-> <<>>, body |-> BodyEmpty,
     upgrade |-> FALSE, chunked |-> FALSE, encoding |-> "Auto"]

-----------------------------------------------------------------------------
(* The writer *)

NoCall ==
    [op |-> "new", res |-> "Ok", log |-> <<>>, entry |-> 0, accepted |-> 0,
     answer |-> "none", shutdown_called |-> FALSE, out |-> <<>>, written_before |-> 0]

\* HttpClientWriter::new, on an empty shared buffer
InitWriter ==
    /\ req = NoRequest
    /\ req0 = NoRequest
    /\ flags = {}
    /\ written = 0
    /\ headers_size = 0
    /\ buffer = <<>>
    /\ encoder = CE_new("Identity", TE_eof)
    /\ low = LOW_WATERMARK
    /\ high = HIGH_WATERMARK
    /\ cache = CachedInit
    /\ sent = <<>>
    /\ appended = <<>>
    /\ payloads = <<>>
    /\ head_len = 0
    /\ eofs = 0
    /\ peer_closed = FALSE
    /\ reads = <<>>
    /\ last = NoCall
    /\ ncalls = 0
    /\ starts = 0

Init == InitWriter /\ clock = <<1, 1>>

RECURSIVE header_lines(_)
\* start, "write headers": lines 127-135
header_lines(h) ==
    IF h = <<>> THEN <<>>
    ELSE Head(h).name \o <<":", " ">> \o Head(h).value \o CRLF \o header_lines(Tail(h))

\* start, "status line": lines 123-124
status_line(r) == METHOD \o <<" ">> \o PATH \o <<" ">> \o VersionDebug(r.version) \o CRLF

\* start, "set date header": lines 138-144
date_lines(h, c) ==
    IF ~contains_key(h, DATE)
    THEN <<"d", "a", "t", "e", ":", " ">> \o c.bytes \o CRLF \o CRLF
    ELSE CRLF

\* mutant: start marks the connection reusable
start_flags_keepalive(f, r) ==
    f \cup {"STARTED", "KEEPALIVE"} \cup (IF r.upgrade THEN {"UPGRADE"} ELSE {})

\* start, which flags it sets: lines 106 and 118-120
start_flags(f, r) == f \cup {"STARTED"} \cup (IF r.upgrade THEN {"UPGRADE"} ELSE {})

\* start, the cache after "set date header": line 138-140
start_date(h, c, now) == IF contains_key(h, DATE) THEN c ELSE set_date(c, now)

\* start, "render message": the head, lines 122-144
render_head(msg, c) ==
    status_line(msg) \o header_lines(msg.headers) \o date_lines(msg.headers, c)

\* start, the in-memory body fed to the encoder: lines 147-152
start_body(msg, e) ==
    IF msg.body.kind = "Binary"
    THEN CE_write(e, msg.body.bytes)
    ELSE [e |-> e, out |-> <<>>, err |-> "none"]

\* mutant: the in-memory body is not counted
start_written_none(msg) == 0

\* start, what it adds to `written`: line 149
start_written(msg) == IF msg.body.kind = "Binary" THEN Len(msg.body.bytes) ELSE 0

\* start, the body left on the request: line 148
start_request(msg) == IF msg.body.kind = "Binary" THEN [msg EXCEPT !.body = BodyEmpty] ELSE msg

\* start, after the head is rendered
StartRendered(r, msg, log, c, head, w) ==
    /\ starts' = starts + 1
    /\ req0' = r
    /\ req' = start_request(msg)
    /\ flags' = start_flags(flags, r)
    /\ encoder' = w.e
    /\ cache' = c
    /\ headers_size' = Len(buffer) + Len(head)
    /\ written' = written + start_written(msg)
    /\ buffer' = buffer \o head \o w.out
    /\ appended' = appended \o head \o w.out
    /\ payloads' = <<>>
    /\ head_len' = Len(head)
    /\ eofs' = 0
    /\ last' = [NoCall EXCEPT !.op = "start",
                              !.res = IF w.err = "none" THEN "Ok" ELSE w.err,
                              !.log = log, !.entry = Len(buffer), !.out = w.out,
                              !.written_before = written]
    /\ UNCHANGED <<low, high, clock, sent, peer_closed, reads, ncalls>>

StartDated(r, sel, c) ==
    StartRendered(r, sel.req, sel.log, c, render_head(sel.req, c), start_body(sel.req, sel.encoder))

StartSelected(r, sel) == StartDated(r, sel, start_date(sel.req.headers, cache, clock))

\* HttpClientWriter::start
Start(r) == StartSelected(r, content_encoder(r))

\* start on a writer fresh from new
StartAny == \E r \in Requests : starts = 0 /\ Start(r)

StartWriter == \E r \in WriterRequests : starts = 0 /\ Start(r)

\* HttpClientWriter::keepalive
keepalive(f) == "KEEPALIVE" \in f /\ "UPGRADE" \notin f

\* mutant: the Upgrade test inverted, the encoder bypassed when it is clear
write_body_bypass(f, e, payload) ==
    IF "DISCONNECTED" \in f
    THEN [e |-> e, out |-> <<>>, err |-> "none"]
    ELSE IF "UPGRADE" \notin f
         THEN [e |-> e, out |-> payload, err |-> "none"]
         ELSE CE_write(e, payload)

\* HttpClientWriter::write, what reaches the buffer: lines 159-165
write_body(f, e, payload) ==
    IF "DISCONNECTED" \in f
    THEN [e |-> e, out |-> <<>>, err |-> "none"]
    ELSE IF "UPGRADE" \in f
         THEN [e |-> e, out |-> payload, err |-> "none"]
         ELSE CE_write(e, payload)

\* HttpClientWriter::write, the backpressure signal: lines 167-171
write_state(buf, hi) == IF Len(buf) > hi THEN "Pause" ELSE "Done"

\* HttpClientWriter::write
Write(payload) ==
    LET w == write_body(flags, encoder, payload)
    IN  /\ "STARTED" \in flags
        /\ ncalls < MaxOps
        /\ ncalls' = ncalls + 1
        /\ written' = written + Len(payload)
        /\ encoder' = w.e
        /\ buffer' = buffer \o w.out
        /\ appended' = appended \o w.out
        /\ payloads' = Append(payloads, [payload |-> payload, ok |-> w.err = "none"])
        /\ last' = [NoCall EXCEPT !.op = "write",
                                  !.res = IF w.err # "none" THEN w.err
                                          ELSE write_state(buffer \o w.out, high),
                                  !.entry = Len(buffer), !.out = w.out,
                                  !.written_before = written]
        /\ UNCHANGED <<req, req0, flags, headers_size, low, high, cache, clock, sent,
                       head_len, eofs, peer_closed, reads, starts>>

\* HttpClientWriter::write_eof, its result: lines 175-182
write_eof_result(f) ==
    IF f.err # "none" THEN f.err
    ELSE IF CE_is_eof(f.e) THEN "Ok" ELSE "incomplete"

\* HttpClientWriter::write_eof
WriteEof ==
    LET f == CE_write_eof(encoder)
    IN  /\ "STARTED" \in flags
        /\ ncalls < MaxOps
        /\ ncalls' = ncalls + 1
        /\ encoder' = f.e
        /\ buffer' = buffer \o f.out
        /\ appended' = appended \o f.out
        /\ eofs' = eofs + 1
        /\ last' = [NoCall EXCEPT !.op = "write_eof", !.res = write_eof_result(f),
                                  !.entry = Len(buffer), !.out = f.out,
                                  !.written_before = written]
        /\ UNCHANGED <<req, req0, flags, written, headers_size, low, high, cache, clock,
                       sent, payloads, head_len, peer_closed, reads, starts>>

\* HttpClientWriter::set_buffer_capacity
SetBufferCapacity ==
    \E c \in Capacities :
        /\ "STARTED" \in flags
        /\ ncalls < MaxOps
        /\ ncalls' = ncalls + 1
        /\ low' = c[1]
        /\ high' = c[2]
        /\ last' = [NoCall EXCEPT !.op = "set_buffer_capacity", !.written_before = written]
        /\ UNCHANGED <<req, req0, flags, written, headers_size, buffer, encoder, cache,
                       clock, sent, appended, payloads, head_len, eofs, peer_closed, reads,
                       starts>>

\* HttpClientWriter::disconnected, the flags it leaves: lines 64-66
disconnected_flags(f) == f

\* HttpClientWriter::disconnected, called by the owner of the writer
Disconnected ==
    /\ "STARTED" \in flags
    /\ ncalls < MaxOps
    /\ ncalls' = ncalls + 1
    /\ buffer' = <<>>
    /\ flags' = disconnected_flags(flags)
    /\ last' = [NoCall EXCEPT !.op = "disconnected", !.entry = Len(buffer),
                              !.written_before = written]
    /\ UNCHANGED <<req, req0, written, headers_size, encoder, low, high, cache, clock,
                   sent, appended, payloads, head_len, eofs, peer_closed, reads, starts>>

\* the byte counts the transport may accept during one poll, out of len:
\* up to MaxCut bytes, or all but up to MaxCut bytes
Cuts(len) == {k \in 0..len : k <= MaxCut \/ len - k <= MaxCut}

\* what the transport answers to the write that ends the loop
Answers == {"Zero", "WouldBlock", "Err"}

\* what the transport's shutdown returns
ShutdownResults == {"Ready", "NotReady", "Err"}

\* mutant: the watermark test with >= for >
would_block_state_ge(rest, hi) == IF Len(rest) >= hi THEN "Pause" ELSE "Done"

\* HttpClientWriter::write_to_stream, the watermark test: lines 89-93
would_block_state(rest, hi) == IF Len(rest) > hi THEN "Pause" ELSE "Done"

\* mutant: a failed write drops the bytes it was offered
write_to_stream_err_drops(buf, f, hi, k, answer) ==
    CASE k = Len(buf) -> [buffer |-> <<>>, flags |-> f, state |-> "Done"]
      [] answer = "Zero" -> [buffer |-> <<>>, flags |-> disconnected_flags(f), state |-> "Done"]
      [] answer = "WouldBlock" ->
            [buffer |-> SubSeq(buf, k + 1, Len(buf)), flags |-> f,
             state |-> would_block_state(SubSeq(buf, k + 1, Len(buf)), hi)]
      [] OTHER -> [buffer |-> <<>>, flags |-> f, state |-> "Err"]

\* mutant: the bytes the transport accepted are not split off the buffer
write_to_stream_no_split(buf, f, hi, k, answer) ==
    CASE k = Len(buf) -> [buffer |-> <<>>, flags |-> f, state |-> "Done"]
      [] answer = "Zero" -> [buffer |-> <<>>, flags |-> disconnected_flags(f), state |-> "Done"]
      [] answer = "WouldBlock" -> [buffer |-> buf, flags |-> f, state |-> would_block_state(buf, hi)]
      [] OTHER -> [buffer |-> buf, flags |-> f, state |-> "Err"]

\* HttpClientWriter::write_to_stream: the transport accepts k bytes over the
\* successful writes of the loop and then, if bytes are left, gives `answer`
write_to_stream(buf, f, hi, k, answer) ==
    LET rest == SubSeq(buf, k + 1, Len(buf))
    IN  CASE k = Len(buf) -> [buffer |-> <<>>, flags |-> f, state |-> "Done"]
          [] answer = "Zero" ->
                [buffer |-> <<>>, flags |-> disconnected_flags(f), state |-> "Done"]
          [] answer = "WouldBlock" ->
                [buffer |-> rest, flags |-> f, state |-> would_block_state(rest, hi)]
          [] OTHER -> [buffer |-> rest, flags |-> f, state |-> "Err"]

\* HttpClientWriter::poll_completed, whether it calls stream.shutdown(): lines 190-192
calls_shutdown(state, shutdown) == shutdown /\ state = "Done"

\* mutant: a finished drain is reported as pending
poll_result_pending(state, shutdown, sd) ==
    CASE state = "Done" -> IF shutdown THEN sd ELSE "NotReady"
      [] state = "Pause" -> "NotReady"
      [] OTHER -> "Err"

\* HttpClientWriter::poll_completed, its result: lines 189-199; sd is what
\* the transport's shutdown returns when it is called
poll_result(state, shutdown, sd) ==
    CASE state = "Done" -> IF shutdown THEN sd ELSE "Ready"
      [] state = "Pause" -> "NotReady"
      [] OTHER -> "Err"

\* HttpClientWriter::poll_completed: the transport accepts k bytes, then gives
\* `answer` if bytes are left; sd is what its shutdown returns when called
Poll(k, answer, shutdown, sd) ==
    LET w == write_to_stream(buffer, flags, high, k, answer)
        called == calls_shutdown(w.state, shutdown)
        zero == k < Len(buffer) /\ answer = "Zero"
    IN  /\ "STARTED" \in flags
        /\ ~called => (sd = "Ready" /\ ~shutdown)
        /\ buffer' = w.buffer
        /\ flags' = w.flags
        /\ sent' = sent \o SubSeq(buffer, 1, k)
        /\ peer_closed' = (peer_closed \/ zero)
        /\ last' = [NoCall EXCEPT !.op = "poll_completed",
                                  !.res = poll_result(w.state, shutdown, sd),
                                  !.entry = Len(buffer), !.accepted = k,
                                  !.answer = IF k = Len(buffer) THEN "none" ELSE answer,
                                  !.shutdown_called = called,
                                  !.written_before = written]
        /\ UNCHANGED <<req, req0, written, headers_size, encoder, low, high, cache,
                       clock, appended, payloads, head_len, eofs, reads, starts>>

\* poll_completed on any transport
PollCompleted ==
    \E k \in Cuts(Len(buffer)), answer \in Answers, shutdown \in BOOLEAN,
       sd \in ShutdownResults :
        /\ ncalls < MaxOps
        /\ k = Len(buffer) => answer = "Zero"
        /\ ncalls' = ncalls + 1
        /\ Poll(k, answer, shutdown, sd)

Next ==
    \/ StartWriter
    \/ \E p \in Payloads : Write(p)
    \/ WriteEof
    \/ SetBufferCapacity
    \/ Disconnected
    \/ PollCompleted

Spec == Init /\ [][Next]_vars

\* the Encoder Selector and start on every request of the model
SpecStart == Init /\ [][StartAny]_vars

-----------------------------------------------------------------------------
(* One writer serving several requests in sequence, on a transport that
   never reports a closed peer *)

SeqRequests ==
    { r \in Requests :
        /\ r.version = "HTTP_11" /\ ~r.chunked /\ r.headers = <<>>
        /\ r.encoding = "Identity"
        /\ r.body = BodyStreaming }

\* start, on a fresh writer or on one that has served a request
StartSeq == \E r \in SeqRequests : starts < MaxStarts /\ Start(r)

LiveAnswers == {"WouldBlock", "Err"}

\* poll_completed(stream, false) on a transport whose writes take bytes,
\* would block or fail
PollSeq ==
    \E k \in Cuts(Len(buffer)), answer \in LiveAnswers :
        /\ ncalls < MaxOps
        /\ k = Len(buffer) => answer = "WouldBlock"
        /\ ncalls' = ncalls + 1
        /\ Poll(k, answer, FALSE, "Ready")

NextSeq ==
    \/ StartSeq
    \/ \E p \in Payloads : Write(p)
    \/ WriteEof
    \/ PollSeq

SpecSeq == Init /\ [][NextSeq]_vars

-----------------------------------------------------------------------------
(* The polling loop: the caller calls poll_completed again after every
   return, on a transport that keeps accepting bytes *)

DrainRequests ==
    { r \in Requests :
        /\ r.version = "HTTP_11" /\ ~r.chunked /\ r.headers = <<>> /\ ~r.upgrade
        /\ r.encoding = "Identity" /\ r.body = BodyStreaming }

StartDrain == \E r \in DrainRequests : starts = 0 /\ Start(r)

\* a poll_completed in which the transport accepts at least one byte
DrainAccept ==
    \E k \in Cuts(Len(buffer)), shutdown \in BOOLEAN, sd \in ShutdownResults :
        /\ k >= 1
        /\ Poll(k, "WouldBlock", shutdown, sd)
        /\ UNCHANGED ncalls

\* a poll_completed in which the transport accepts nothing: its first write
\* would block, or there is nothing to write
DrainBlocked ==
    \E shutdown \in BOOLEAN, sd \in ShutdownResults :
        /\ Poll(0, "WouldBlock", shutdown, sd)
        /\ UNCHANGED ncalls

DrainPayloads == {<<"a", "b">>}

NextDrain ==
    \/ StartDrain
    \/ \E p \in DrainPayloads : Write(p)
    \/ SetBufferCapacity
    \/ DrainAccept
    \/ DrainBlocked

\* the caller polls again after every return and the transport always
\* eventually accepts at least one byte
SpecDrain == Init /\ [][NextDrain]_vars /\ WF_vars(DrainAccept)

-----------------------------------------------------------------------------
(* The Date cache read on its own *)

Nsecs == {0, 1}

Times == (1..MaxSec) \X Nsecs

InitDate == InitWriter /\ clock = <<1, 0>>

\* set_date at wall-clock time t, no earlier than the previous read
GetDate ==
    \E t \in Times :
        /\ Len(reads) < MaxReads
        /\ TimeGe(t, clock)
        /\ clock' = t
        /\ cache' = set_date(cache, t)
        /\ reads' = Append(reads, [at |-> t, value |-> set_date(cache, t).bytes])
        /\ UNCHANGED <<req, req0, flags, written, headers_size, buffer, encoder, low, high,
                       sent, appended, payloads, head_len, eofs, peer_closed, last, ncalls,
                       starts>>

SpecDate == InitDate /\ [][GetDate]_vars

-----------------------------------------------------------------------------
(* What the claims speak of *)

\* the head start serialized, and what was appended to the buffer after it
HeadBytes == SubSeq(appended, 1, head_len)

BodyBytes == SubSeq(appended, head_len + 1, Len(appended))

Contains(bytes, pat) ==
    \E i \in 1..(Len(bytes) - Len(pat) + 1) : SubSeq(bytes, i, i + Len(pat) - 1) = pat

\* the head holds a header line of this name / of this name and value
HeadHasHeader(name) == Contains(HeadBytes, CRLF \o name \o <<":", " ">>)

HeadHasLine(name, value) == Contains(HeadBytes, CRLF \o name \o <<":", " ">> \o value \o CRLF)

StreamingRequest == req0.body.kind \in {"Streaming", "Actor"} /\ ~req0.upgrade

RECURSIVE ChunkStream(_)
\* "<hex length>\r\n" + w + "\r\n" for each non-empty payload, in order
ChunkStream(ws) ==
    IF ws = <<>> THEN <<>>
    ELSE (IF Head(ws).payload = <<>> THEN <<>>
          ELSE Hex(Len(Head(ws).payload)) \o CRLF \o Head(ws).payload \o CRLF)
         \o ChunkStream(Tail(ws))

RECURSIVE AcceptedLen(_)
\* total payload bytes of the writes that did not fail
AcceptedLen(ws) ==
    IF ws = <<>> THEN 0
    ELSE (IF Head(ws).ok THEN Len(Head(ws).payload) ELSE 0) + AcceptedLen(Tail(ws))

-----------------------------------------------------------------------------
(* C1 *)

\* C1, as claimed: once a transport write has returned Ok(0) the writer is
\* marked Disconnected and the buffer is emptied by that poll, and every later
\* write adds the payload length to `written`, appends nothing and does not fail.
C1_PeerClosedDropsWrites ==
    peer_closed =>
        /\ "DISCONNECTED" \in flags
        /\ (last.op = "poll_completed" /\ last.answer = "Zero") => buffer = <<>>
        /\ last.op = "write" =>
              /\ written = last.written_before + Len(payloads[Len(payloads)].payload)
              /\ last.out = <<>>
              /\ last.res \in {"Done", "Pause"}

-----------------------------------------------------------------------------
(* C2 *)

PausedByWatermark == last.answer = "WouldBlock" /\ Len(buffer) > high

\* C2, as claimed: poll_completed reports NotReady exactly when the transport
\* answered would-block with more than `high` bytes buffered, and reports
\* Ready whenever the transport did not fail and at most `high` bytes are left.
C2_PendingExactlyAboveHigh ==
    last.op = "poll_completed" =>
        /\ last.res = "NotReady" <=> PausedByWatermark
        /\ (last.answer # "Err" /\ Len(buffer) <= high) => last.res = "Ready"

\* C2, amended: the same for every poll_completed that does not call the
\* transport's shutdown; a poll that calls it (only ever with no pause and no
\* error from the drain) returns what shutdown returns.
C2_PendingExactlyAboveHighNoShutdown ==
    last.op = "poll_completed" =>
        /\ ~last.shutdown_called =>
              /\ last.res = "NotReady" <=> PausedByWatermark
              /\ (last.answer # "Err" /\ Len(buffer) <= high) => last.res = "Ready"
        /\ last.shutdown_called => (~PausedByWatermark /\ last.answer # "Err")

\* C2 witness: the buffer exceeded `high`, the transport took bytes until
\* exactly `high` were left and then answered would-block: Ready
C2_Witness ==
    /\ last.op = "poll_completed"
    /\ ~last.shutdown_called
    /\ last.entry > high
    /\ last.accepted > 0
    /\ last.answer = "WouldBlock"
    /\ Len(buffer) = high
    /\ buffer # <<>>
    /\ last.res = "Ready"

-----------------------------------------------------------------------------
(* C3 *)

ChunkedStart == StreamingRequest /\ encoder.transfer.kind = "Chunked"

FirstEof == last.op = "write_eof" /\ eofs = 1

\* C3, as claimed: for a request started in Chunked mode, after writes
\* w1..wk and then write_eof the bytes appended after the head are the chunk
\* of every non-empty wi in order and then the terminator, once; write_eof
\* succeeds.
C3_ChunkedFraming ==
    (ChunkedStart /\ FirstEof) =>
        /\ BodyBytes = ChunkStream(payloads) \o CHUNK_END
        /\ last.res = "Ok"

\* C3, amended: the same when no compression codec was requested (content
\* encoding Identity or Auto).
C3_ChunkedFramingIdentity ==
    (ChunkedStart /\ ~is_compression(req0.encoding) /\ FirstEof) =>
        /\ BodyBytes = ChunkStream(payloads) \o CHUNK_END
        /\ last.res = "Ok"

\* C3 witness: an empty and then a non-empty write, then write_eof
C3_Witness ==
    /\ ChunkedStart
    /\ ~is_compression(req0.encoding)
    /\ FirstEof
    /\ Len(payloads) = 2
    /\ payloads[1].payload = <<>>
    /\ payloads[2].payload = <<"a", "b">>
    /\ last.res = "Ok"

-----------------------------------------------------------------------------
(* C4 *)

\* a streaming, non-upgrade request whose Content-Length parses
LengthRequest ==
    /\ StreamingRequest
    /\ ~req0.chunked
    /\ contains_key(req0.headers, CONTENT_LENGTH)
    /\ ParseU64(get(req0.headers, CONTENT_LENGTH)) >= 0

DeclaredLength == ParseU64(get(req0.headers, CONTENT_LENGTH))

\* total of the payloads accepted before the last write
AcceptedBefore == AcceptedLen(SubSeq(payloads, 1, Len(payloads) - 1))

LengthContract ==
    /\ encoder.transfer.kind = "Length"
    /\ last.op = "write" =>
          /\ last.res = "overlong"
                <=> AcceptedBefore + Len(payloads[Len(payloads)].payload) > DeclaredLength
          /\ last.res \in {"overlong", "Done", "Pause"}
    /\ last.op = "write_eof" =>
          /\ last.res = "Ok" <=> AcceptedLen(payloads) = DeclaredLength
          /\ last.res \in {"Ok", "incomplete"}

\* C4, as claimed: in transfer mode Length(n) a write that would bring the
\* body bytes above n fails as overlong, and write_eof succeeds if and only if
\* the bytes written total n, and fails as incomplete otherwise.
C4_LengthContract == ("STARTED" \in flags /\ LengthRequest) => LengthContract

\* C4, amended: the same when no compression codec was requested (content
\* encoding Identity or Auto), the body bytes counted over the writes that did
\* not fail.
C4_LengthContractIdentity ==
    ("STARTED" \in flags /\ LengthRequest /\ ~is_compression(req0.encoding)) => LengthContract

\* C4 witness: a write accepted, a write refused as overlong, write_eof Ok
C4_Witness ==
    /\ "STARTED" \in flags
    /\ LengthRequest
    /\ ~is_compression(req0.encoding)
    /\ last.op = "write_eof"
    /\ last.res = "Ok"
    /\ Len(payloads) = 2
    /\ payloads[1].ok
    /\ ~payloads[2].ok

-----------------------------------------------------------------------------
(* C5 *)

\* C5, as claimed: after start of an upgrade request the head carries no
\* Content-Encoding, the encoder selected is Identity and a Binary payload
\* reaches the buffer uncompressed.
C5_UpgradeNeverEncoded ==
    (last.op = "start" /\ req0.upgrade) =>
        /\ ~HeadHasHeader(CONTENT_ENCODING)
        /\ ~contains_key(req.headers, CONTENT_ENCODING)
        /\ encoder.codec = "Identity"
        /\ req0.body.kind = "Binary" => last.out = req0.body.bytes

-----------------------------------------------------------------------------
(* C6 *)

\* C6, as claimed: start of an upgrade request on HTTP/2 logs a warning,
\* succeeds and serializes no "connection: upgrade"; on the other versions a
\* streaming upgrade request gets "connection: upgrade" and mode Eof.
C6_UpgradeOnHttp2 ==
    (last.op = "start" /\ req0.upgrade) =>
        /\ req0.version = "HTTP_2" =>
              /\ last.log = <<"Connection upgrade is forbidden for HTTP/2">>
              /\ last.res = "Ok"
              /\ ~HeadHasLine(CONNECTION, V_upgrade)
        /\ (req0.version # "HTTP_2" /\ req0.body.kind \in {"Streaming", "Actor"}) =>
              /\ HeadHasLine(CONNECTION, V_upgrade)
              /\ encoder.transfer.kind = "Eof"

-----------------------------------------------------------------------------
(* C7 *)

BinaryCompressed == req0.body.kind = "Binary" /\ is_compression(req0.encoding)

\* C7: after start of a request with a Binary body and a compression
\* encoding A, Content-Length is the decimal length of the compressed payload,
\* which is the number of body bytes start appended and added to `written`;
\* Content-Encoding is A; the payload went through the codec once and the
\* active encoder is Identity over Eof.
C7_BinaryCompressedLength ==
    (last.op = "start" /\ BinaryCompressed) =>
        /\ last.out = Compress(req0.encoding, req0.body.bytes)
        /\ BodyBytes = last.out
        /\ HeadHasLine(CONTENT_LENGTH, Dec(Len(last.out)))
        /\ written = last.written_before + Len(last.out)
        /\ HeadHasLine(CONTENT_ENCODING, as_str(req0.encoding))
        /\ encoder.codec = "Identity"
        /\ encoder.transfer.kind = "Eof"

\* C7 witness: a two-byte body under Gzip, four bytes once compressed
C7_Witness ==
    /\ last.op = "start"
    /\ req0.body = BodyBinary(<<"a", "b">>)
    /\ req0.encoding = "Gzip"
    /\ HeadHasLine(CONTENT_LENGTH, <<"4">>)
    /\ Len(BodyBytes) = 4

-----------------------------------------------------------------------------
(* C8 *)

\* C8, as claimed: over a non-decreasing sequence of read times, two reads
\* in the same second return the same bytes, and a read in a later second
\* than the read before it returns other bytes, those of its own second.
C8_DatePerSecond ==
    \A i, j \in 1..Len(reads) :
        /\ (i < j /\ reads[i].at[1] = reads[j].at[1]) => reads[i].value = reads[j].value
        /\ (j = i + 1 /\ reads[i].at[1] < reads[j].at[1]) =>
              /\ reads[j].value # reads[i].value
              /\ reads[j].value = rfc822(reads[j].at)

-----------------------------------------------------------------------------
(* C9 *)

\* C9, as claimed: the head start serializes for an HTTP/2 request holds no
\* Transfer-Encoding header and the transfer mode is not Chunked.
C9_Http2NoTransferEncoding ==
    (last.op = "start" /\ req0.version = "HTTP_2") =>
        /\ ~HeadHasHeader(TRANSFER_ENCODING)
        /\ encoder.transfer.kind # "Chunked"

-----------------------------------------------------------------------------
(* C10 *)

\* C10, as claimed: for a streaming, non-upgrade request with chunked = true
\* Content-Length is removed, HTTP/1.1 gets "transfer-encoding: chunked" and
\* mode Chunked, and every other version gets no Transfer-Encoding and Eof.
C10_ChunkedOnlyOnHttp11 ==
    (last.op = "start" /\ StreamingRequest /\ req0.chunked) =>
        /\ ~HeadHasHeader(CONTENT_LENGTH)
        /\ req0.version = "HTTP_11" =>
              /\ HeadHasLine(TRANSFER_ENCODING, V_chunked)
              /\ encoder.transfer.kind = "Chunked"
        /\ req0.version # "HTTP_11" =>
              /\ ~HeadHasHeader(TRANSFER_ENCODING)
              /\ encoder.transfer.kind = "Eof"

-----------------------------------------------------------------------------
(* C11 *)

\* a streaming, non-upgrade request, chunked = false, whose Content-Length is
\* present and does not parse
MalformedLengthRequest ==
    /\ StreamingRequest
    /\ ~req0.chunked
    /\ contains_key(req0.headers, CONTENT_LENGTH)
    /\ ~(ToStrOk(get(req0.headers, CONTENT_LENGTH))
          /\ ParseU64(get(req0.headers, CONTENT_LENGTH)) >= 0)

\* C11, as claimed: start of a streaming, non-upgrade request with an
\* unparsable Content-Length succeeds and handles the length as unknown:
\* HTTP/1.1 gets "transfer-encoding: chunked" and mode Chunked, every other
\* version gets no Transfer-Encoding and mode Eof.
C11_MalformedLengthIsUnknownLength ==
    (last.op = "start" /\ MalformedLengthRequest) =>
        /\ last.res = "Ok"
        /\ req0.version = "HTTP_11" =>
              /\ HeadHasLine(TRANSFER_ENCODING, V_chunked)
              /\ encoder.transfer.kind = "Chunked"
        /\ req0.version # "HTTP_11" =>
              /\ ~HeadHasHeader(TRANSFER_ENCODING)
              /\ encoder.transfer.kind = "Eof"

-----------------------------------------------------------------------------
(* C12 *)

\* C12, as claimed: whenever poll_completed calls the transport's shutdown
\* the output buffer is empty.
C12_ShutdownOnlyOnFullDrain ==
    (last.op = "poll_completed" /\ last.shutdown_called) => buffer = <<>>

-----------------------------------------------------------------------------
(* C13 *)

\* C13: a poll_completed in which a transport write fails with an error
\* other than would-block returns that error, does not call shutdown, leaves
\* the flags as they were, and leaves in the buffer exactly the bytes the
\* transport had not accepted before the failing write: what the transport
\* took is the prefix, nothing is appended, dropped or duplicated.
C13_TransportErrorPropagates ==
    [][(last'.op = "poll_completed" /\ last'.answer = "Err") =>
          /\ last'.res = "Err"
          /\ ~last'.shutdown_called
          /\ flags' = flags
          /\ buffer' = SubSeq(buffer, last'.accepted + 1, Len(buffer))
          /\ sent' = sent \o SubSeq(buffer, 1, last'.accepted)
          /\ sent' \o buffer' = sent \o buffer
          /\ appended' = appended]_vars

\* C13 witness: the transport took one byte and then failed, bytes are left
C13_Witness ==
    /\ last.op = "poll_completed"
    /\ last.answer = "Err"
    /\ last.res = "Err"
    /\ last.accepted = 1
    /\ Len(buffer) = last.entry - 1
    /\ buffer # <<>>

-----------------------------------------------------------------------------
(* C14 *)

LastPayload == payloads[Len(payloads)].payload

\* C14, as claimed: on a writer that serves requests in sequence, after
\* start the Upgrade flag is set if and only if the request just started asked
\* for an upgrade; a write appends the payload raw when that request is an
\* upgrade, and sends it through the encoder (here: a chunk, in Chunked mode)
\* when it is not.
C14_UpgradeFollowsLastRequest ==
    /\ last.op = "start" => ("UPGRADE" \in flags <=> req0.upgrade)
    /\ (last.op = "write" /\ req0.upgrade) => last.out = LastPayload
    /\ (last.op = "write" /\ ~req0.upgrade /\ encoder.transfer.kind = "Chunked") =>
          last.out = ChunkStream(<<[payload |-> LastPayload]>>)

-----------------------------------------------------------------------------
(* C16 *)

\* C16, as claimed: after every start, headers_size is the byte length of
\* the head serialized for that request, whatever the buffer held before.
C16_HeadersSizeIsHeadLength == last.op = "start" => headers_size = head_len

-----------------------------------------------------------------------------
(* C18 *)

\* C18: under any interleaving of start, write, write_eof and
\* poll_completed on a transport that never reports a closed peer, the bytes
\* the transport has accepted followed by the bytes in the buffer are the
\* bytes ever appended to the buffer, in order.
C18_FifoDrain == sent \o buffer = appended

\* C18 witness: two requests started, a partial write accepted in an earlier
\* poll and another in the last one, bytes still buffered
C18_Witness ==
    /\ starts = 2
    /\ last.op = "poll_completed"
    /\ last.accepted > 0
    /\ Len(sent) > last.accepted
    /\ buffer # <<>>
    /\ sent \o buffer = appended

-----------------------------------------------------------------------------
(* C15 *)

\* the in-memory body as start feeds it to the encoder: the caller's bytes,
\* or their compressed form when the selector compressed them
FedBody(r) ==
    IF r.body.kind # "Binary" THEN <<>>
    ELSE IF is_compression(r.encoding) THEN Compress(r.encoding, r.body.bytes)
    ELSE r.body.bytes

\* what a call submits as payload
Submitted(call, r, ws) ==
    CASE call.op = "start" -> Len(FedBody(r))
      [] call.op = "write" -> Len(ws[Len(ws)].payload)
      [] OTHER -> 0

\* C15: every step adds to `written` exactly the length of the payload
\* passed to write, or of the in-memory body start feeds to the encoder, and
\* nothing for any other operation, whatever the flags and whatever the call
\* returns; so `written` is the sum of those lengths and never decreases.
C15_WrittenCountsSubmitted ==
    [][/\ written' = written + Submitted(last', req0', payloads')
       /\ written' >= written]_vars

\* C15 witness: a write the encoder refused as overlong has been counted
C15_Witness ==
    /\ last.op = "write"
    /\ last.res = "overlong"
    /\ LastPayload = <<"a", "b">>
    /\ last.out = <<>>
    /\ written = last.written_before + 2

-----------------------------------------------------------------------------
(* C19 *)

\* C19: no operation sets the Keepalive flag, so keepalive() is false in
\* every reachable state, for upgrade and non-upgrade requests alike.
C19_KeepaliveNeverSet == "KEEPALIVE" \notin flags /\ ~keepalive(flags)

\* C19 witness: a request that is no upgrade has been started, written to,
\* finished and polled, and keepalive() is false
C19_Witness ==
    /\ "STARTED" \in flags
    /\ "UPGRADE" \notin flags
    /\ last.op = "poll_completed"
    /\ eofs = 1
    /\ Len(payloads) = 1
    /\ ~keepalive(flags)

-----------------------------------------------------------------------------
(* C20 *)

EmptyStarted == "STARTED" \in flags /\ req0.body.kind = "Empty"

\* start of an Empty-body request: no Content-Length, Length(0), no byte
\* after the head
EmptyStart ==
    /\ ~HeadHasHeader(CONTENT_LENGTH)
    /\ ~contains_key(req.headers, CONTENT_LENGTH)
    /\ encoder.transfer = TE_length(0)
    /\ BodyBytes = <<>>
    /\ last.res = "Ok"

\* write_eof issued directly after start
EofAfterStart == last.op = "write_eof" /\ ncalls = 1

EmptyEof == last.res = "Ok" /\ last.out = <<>> /\ BodyBytes = <<>>

\* C20, as claimed: for an Empty-body request under any content encoding,
\* start removes Content-Length, selects Length(0) and appends nothing after
\* the head, and a write_eof directly after start succeeds and appends nothing.
C20_EmptyBodyLengthZero ==
    EmptyStarted =>
        /\ last.op = "start" => EmptyStart
        /\ EofAfterStart => EmptyEof

\* C20, amended: the same of start under any content encoding; of write_eof
\* when no compression codec is selected (content encoding Identity or Auto).
C20_EmptyBodyLengthZeroIdentity ==
    EmptyStarted =>
        /\ last.op = "start" => EmptyStart
        /\ (EofAfterStart /\ ~is_compression(req0.encoding)) => EmptyEof

\* C20 witness: an Empty-body request that came with a Content-Length,
\* encoding Auto, started and then finished with write_eof
C20_Witness ==
    /\ EmptyStarted
    /\ contains_key(req0.headers, CONTENT_LENGTH)
    /\ req0.encoding = "Auto"
    /\ EofAfterStart
    /\ EmptyEof
    /\ ~HeadHasHeader(CONTENT_LENGTH)

-----------------------------------------------------------------------------
(* C17 *)

\* C17, as claimed: once start and write calls have ceased, with the caller
\* polling after every return and a transport that always eventually accepts
\* a byte, the buffer eventually is empty and stays empty, and poll_completed
\* then reports Ready.
C17_DrainsThenReady ==
    <>[](buffer = <<>> /\ (last.op = "poll_completed" => last.res = "Ready"))

\* C17, amended: the same, Ready being what the polls report that do not
\* call the transport's shutdown (shutdown = false); a poll called with
\* shutdown = true returns what the transport's shutdown returns.
C17_DrainsThenReadyNoShutdown ==
    <>[](buffer = <<>>
         /\ ((last.op = "poll_completed" /\ ~last.shutdown_called) => last.res = "Ready"))

\* C17 witness: the watermark was lowered, the buffer was drained over
\* several polls and the last one reports Ready
C17_Witness ==
    /\ high = 1
    /\ appended # <<>>
    /\ sent = appended
    /\ buffer = <<>>
    /\ last.op = "poll_completed"
    /\ last.accepted >= 1
    /\ last.accepted < Len(sent)
    /\ ~last.shutdown_called
    /\ last.res = "Ready"

====
